---- MODULE Spec2Model ----
(***************************************************************************)
(* BookVerse inventory service: the books, inventory_records and           *)
(* stock_transactions tables (app/models.py) and the service operations    *)
(* that write them (app/services.py), as called by the HTTP handlers of    *)
(* app/api.py.  Spec serves every request in one step, all within one      *)
(* reading of the clock; SpecConc splits adjust_inventory into its round   *)
(* trips to the database, so that requests served by different sessions    *)
(* interleave; SpecRead serves the queries next to the writes; SpecClock   *)
(* lets the clock move on between requests.                                *)
(***************************************************************************)
EXTENDS Integers, Sequences, FiniteSets, TLC

\* ------------------------------------------------------------------ bounds
MaxDelta == 2          \* largest |quantity_change| of a request
MaxQty   == 2          \* largest stored quantity explored
MaxTx    == 2          \* rows of stock_transactions explored
MaxClock == 1          \* readings of the wall clock explored
MaxRows  == 4          \* rows of a table when the listings are paged

\* ------------------------------------------------------- program constants
LOW_STOCK_THRESHOLD == 5
DEFAULT_PAGE_SIZE == 20

\* ------------------------------------------------------------ input sets
BookIds == {"b1", "b2"}            \* the UUIDs in play
Procs   == {"p1", "p2"}            \* sessions serving adjust concurrently
Deltas  == (0 - MaxDelta)..MaxDelta
Titles  == {"A", "B"}
Prices  == {10}
NotesVals == {"null", "restock"}   \* Optional[str]: null or a text
NoBook  == "none"
\* stored quantities explored: the small ones and those around the reorder
\* point
Quantities ==
    0..MaxQty \cup {LOW_STOCK_THRESHOLD, LOW_STOCK_THRESHOLD + 1}
Explored(q) == q <= MaxQty \/ q \in Quantities
Pages   == 1..2                    \* page numbers requested (ge=1)
PerPages == {1, DEFAULT_PAGE_SIZE} \* page sizes requested (ge=1)
PagedIds == <<"b1", "b2", "b3", "b4", "b5", "b6", "b7">>
PagedPages == 1..4                 \* page numbers, some past the last page
PagedPerPages == {1, 2, 3, DEFAULT_PAGE_SIZE}

VARIABLES
    books,                \* the books table: id -> row
    inventory_records,    \* the table's rows in insertion order
    stock_transactions,   \* the table's rows in insertion order
    now,                  \* the wall clock
    last,                 \* the response to the last request served
    accepted,             \* per book id: adjust calls answered 200 so far
    req                   \* per session: the adjust request it is serving

vars ==
    <<books, inventory_records, stock_transactions, now, last, accepted, req>>

\* ------------------------------------------------------------- data model
\* A row of the books table as create_book stores it; books maps the
\* primary key id to its row.  Of the descriptive columns, title and price
\* stand for all (the others are written and read the same way).
Book(title, price, t) ==
    [title |-> title, price |-> price, is_active |-> TRUE,
     created_at |-> t, updated_at |-> t]

\* A row of the inventory_records table.
InventoryRecord(id, b, qa, qt, rp, t) ==
    [id |-> id, book_id |-> b, quantity_available |-> qa,
     quantity_total |-> qt, reorder_point |-> rp, updated_at |-> t]

\* Variant: the row stores the size of the change, its direction being
\* told by transaction_type.
StockTransaction_Magnitude(id, b, type, d, n, t) ==
    [id |-> id, book_id |-> b, transaction_type |-> type,
     quantity_change |-> IF d < 0 THEN 0 - d ELSE d, notes |-> n,
     timestamp |-> t]

\* A row of the stock_transactions table.
StockTransaction(id, b, type, d, n, t) ==
    [id |-> id, book_id |-> b, transaction_type |-> type,
     quantity_change |-> d, notes |-> n, timestamp |-> t]

\* uuid4() for a row's own id: an identifier no row of the table carries;
\* it is drawn when the row is inserted.
uuid4(table) == Len(table) + 1

\* CHECK constraints of inventory_records.
ck_inventory_nonneg_available(rec) == rec.quantity_available >= 0
ck_inventory_nonneg_total(rec) == rec.quantity_total >= 0

\* Variant: book_id is not declared unique.
UniqueBookId_Undeclared(inv, b) == TRUE

\* UNIQUE(book_id) of inventory_records: may a row for b be inserted?
UniqueBookId(inv, b) == \A i \in 1..Len(inv) : inv[i].book_id # b

\* Variant: the number of pages is rounded down.
PaginationMeta_Floor(total, page, per_page) ==
    LET floor == total \div per_page
        pages == IF floor > 1 THEN floor ELSE 1
    IN [total |-> total, page |-> page, per_page |-> per_page,
        pages |-> pages, has_next |-> page < pages, has_prev |-> page > 1]

\* PaginationMeta of a listing, computed by the three list handlers.
PaginationMeta(total, page, per_page) ==
    LET ceil == (total + per_page - 1) \div per_page
        pages == IF ceil > 1 THEN ceil ELSE 1
    IN [total |-> total, page |-> page, per_page |-> per_page,
        pages |-> pages, has_next |-> page < pages, has_prev |-> page > 1]

\* The body of a response that lists nothing.
NoBody == [items |-> <<>>, pagination |-> PaginationMeta(0, 1, 1)]

\* A BookUpdate body that sets no field.
NoUpdate == [f \in {} |-> 0]

\* The result of the last request: handler, HTTP status, the cause of a
\* failure, the request's inputs, the returned StockTransaction (a
\* sequence of at most one row) and, for a query, the body returned.
Result(op, status, cause, b, d, n, tx) ==
    [op |-> op, status |-> status, cause |-> cause, book_id |-> b,
     delta |-> d, notes |-> n, tx |-> tx, body |-> NoBody,
     update_data |-> NoUpdate, low_stock |-> FALSE]

\* The result of an update request, with the fields its body set.
UpdateResult(status, cause, b, update_data) ==
    [Result("update", status, cause, b, 0, "null", <<>>)
        EXCEPT !.update_data = update_data]

\* The result of a query: its items and pagination.
QueryResult(op, status, b, items, pagination) ==
    [Result(op, status, IF status = 200 THEN "none" ELSE "not_found", b, 0,
            "null", <<>>)
        EXCEPT !.body = [items |-> items, pagination |-> pagination]]

\* A session that serves no request.
IdleReq ==
    [pc |-> "idle", book_id |-> NoBook, delta |-> 0, notes |-> "null",
     inventory_is_new |-> FALSE,
     rec |-> InventoryRecord(0, NoBook, 0, 0, 0, 0)]

Init ==
    /\ books = <<>>
    /\ inventory_records = <<>>
    /\ stock_transactions = <<>>
    /\ now = 0
    /\ last = Result("none", 0, "none", NoBook, 0, "null", <<>>)
    /\ accepted = [b \in BookIds |-> 0]
    /\ req = [p \in Procs |-> IdleReq]

\* ------------------------------------------------- InventoryService.adjust
\* query(InventoryRecord).filter(book_id == b).first(): index of the first
\* matching row, 0 for None.
RECURSIVE FirstFrom(_, _, _)
FirstFrom(inv, b, i) ==
    IF i > Len(inv) THEN 0
    ELSE IF inv[i].book_id = b THEN i
    ELSE FirstFrom(inv, b, i + 1)

\* Variant: the filter compares the record's own id, which no book id
\* equals, so the query finds nothing.
FindInventory_ByOwnId(inv, b) == 0

FindInventory(inv, b) == FirstFrom(inv, b, 1)

\* Variant: a new record gets no reorder point of its own.
NewInventoryRecord_NoReorderPoint(b, t) == InventoryRecord(0, b, 0, 0, 0, t)

\* The zero-stock record adjust builds in memory when none is stored.
NewInventoryRecord(b, t) ==
    InventoryRecord(0, b, 0, 0, LOW_STOCK_THRESHOLD, t)

new_available(rec, d) == rec.quantity_available + d

\* Variant: the total counts stock ever received and is not reduced.
new_total_ReceivedOnly(rec, d) ==
    rec.quantity_total + (IF d > 0 THEN d ELSE 0)

new_total(rec, d) == rec.quantity_total + d

\* Variant: the stored quantities are validated instead of the new ones.
WouldGoNegative_Stored(rec, d) ==
    rec.quantity_available < 0 \/ rec.quantity_total < 0

\* Variant: an adjustment that empties the stock is refused as well.
WouldGoNegative_Strict(rec, d) ==
    new_available(rec, d) <= 0 \/ new_total(rec, d) <= 0

\* Variant: a change of zero is refused, as the handler's docstring has it.
WouldGoNegative_RefuseZero(rec, d) ==
    d = 0 \/ new_available(rec, d) < 0 \/ new_total(rec, d) < 0

\* Variant: the service validates nothing and leaves the refusal to the
\* CHECK constraints.
WouldGoNegative_Unchecked(rec, d) == FALSE

\* The two early returns of adjust_inventory.
WouldGoNegative(rec, d) ==
    new_available(rec, d) < 0 \/ new_total(rec, d) < 0

\* Variant: a zero change is classified with the positive ones.
transaction_type_NoZero(d) == IF d >= 0 THEN "stock_in" ELSE "stock_out"

transaction_type(d) ==
    IF d > 0 THEN "stock_in"
    ELSE IF d < 0 THEN "stock_out"
    ELSE "adjustment"

\* Variant: the change is taken from the stock on hand only, the total
\* keeping what was received.
Adjusted_AvailableOnly(rec, d, t) ==
    [rec EXCEPT !.quantity_available = new_available(rec, d),
                !.updated_at = t]

\* The in-memory record after the three assignments before db.add.
Adjusted(rec, d, t) ==
    [rec EXCEPT !.quantity_available = new_available(rec, d),
                !.quantity_total = new_total(rec, d),
                !.updated_at = t]

\* What the flush of db.commit() runs into: a fault of the database (the
\* file is locked, the disk is full), the UNIQUE constraint on an INSERT, a
\* CHECK constraint, or nothing.  Faults are explored for the two handlers
\* that write more than one row, adjust and create.
FlushFailure(inv, rec, inventory_is_new, fault) ==
    IF fault THEN "fault"
    ELSE IF inventory_is_new /\ ~UniqueBookId(inv, rec.book_id) THEN "unique"
    ELSE IF ~(ck_inventory_nonneg_available(rec)
              /\ ck_inventory_nonneg_total(rec)) THEN "check"
    ELSE "none"

\* Variant: the flush stamps updated_at on every row of the table.
FlushInventory_StampAll(inv, loaded, rec, inventory_is_new) ==
    LET stamped == [i \in 1..Len(inv) |->
                       [inv[i] EXCEPT !.updated_at = rec.updated_at]]
    IN IF inventory_is_new
       THEN Append(stamped, [rec EXCEPT !.id = uuid4(inv)])
       ELSE [i \in 1..Len(inv) |->
               IF inv[i].id # rec.id THEN stamped[i]
               ELSE [stamped[i] EXCEPT
                       !.quantity_available = rec.quantity_available,
                       !.quantity_total = rec.quantity_total]]

\* Variant: the UPDATE adds the change to the stored quantities
\* (SET quantity_available = quantity_available + delta).
FlushInventory_Relative(inv, loaded, rec, inventory_is_new) ==
    IF inventory_is_new THEN Append(inv, [rec EXCEPT !.id = uuid4(inv)])
    ELSE [i \in 1..Len(inv) |->
            IF inv[i].id # rec.id THEN inv[i]
            ELSE [inv[i] EXCEPT
                    !.quantity_available =
                        @ + rec.quantity_available - loaded.quantity_available,
                    !.quantity_total =
                        @ + rec.quantity_total - loaded.quantity_total,
                    !.updated_at = rec.updated_at]]

\* The inventory_records table after the flush: INSERT of a new record, or
\* an UPDATE by primary key that sets the attributes the session changed (a
\* quantity assigned its loaded value is not part of the statement).
FlushInventory(inv, loaded, rec, inventory_is_new) ==
    IF inventory_is_new THEN Append(inv, [rec EXCEPT !.id = uuid4(inv)])
    ELSE [i \in 1..Len(inv) |->
            IF inv[i].id # rec.id THEN inv[i]
            ELSE [inv[i] EXCEPT
                    !.quantity_available =
                        IF rec.quantity_available = loaded.quantity_available
                        THEN @ ELSE rec.quantity_available,
                    !.quantity_total =
                        IF rec.quantity_total = loaded.quantity_total
                        THEN @ ELSE rec.quantity_total,
                    !.updated_at = rec.updated_at]]

\* Variant: the log keeps the latest row of each book only.
FlushTransactions_KeepLatest(txs, tx) ==
    LET OtherBook(row) == row.book_id # tx.book_id
    IN Append(SelectSeq(txs, OtherBook), tx)

\* Variant: a change of zero is not logged.
FlushTransactions_SkipZero(txs, tx) ==
    IF tx.quantity_change = 0 THEN txs ELSE Append(txs, tx)

\* db.add(transaction) and its INSERT at the flush.
FlushTransactions(txs, tx) == Append(txs, tx)

\* Variant: the record is committed on its own before the transaction row
\* is written, so a fault loses only the row.
CommitAdjust_Separate(inv, txs, loaded, rec, tx, is_new, failure) ==
    IF failure = "fault"
    THEN [inventory_records |-> FlushInventory(inv, loaded, rec, is_new),
          stock_transactions |-> txs]
    ELSE IF failure # "none"
    THEN [inventory_records |-> inv, stock_transactions |-> txs]
    ELSE [inventory_records |-> FlushInventory(inv, loaded, rec, is_new),
          stock_transactions |-> FlushTransactions(txs, tx)]

\* db.commit(): the statements of the flush take effect together, or, when
\* the flush fails, not at all (the transaction is rolled back).
CommitAdjust(inv, txs, loaded, rec, tx, is_new, failure) ==
    IF failure # "none"
    THEN [inventory_records |-> inv, stock_transactions |-> txs]
    ELSE [inventory_records |-> FlushInventory(inv, loaded, rec, is_new),
          stock_transactions |-> FlushTransactions(txs, tx)]

\* Everything adjust_inventory does after its query, given the record the
\* query loaded (or the lack of one), against the tables as they are at
\* commit time; then the handler's mapping to an HTTP status.
AdjustFrom(b, d, n, inventory_is_new, loaded, fault) ==
    IF WouldGoNegative(loaded, d)
    THEN /\ last' = Result("adjust", 400, "negative", b, d, n, <<>>)
         /\ UNCHANGED <<inventory_records, stock_transactions, accepted>>
    ELSE LET rec == Adjusted(loaded, d, now)
             tx == StockTransaction(uuid4(stock_transactions), b,
                                    transaction_type(d), d, n, now)
             failure ==
                 FlushFailure(inventory_records, rec, inventory_is_new, fault)
             db == CommitAdjust(inventory_records, stock_transactions,
                                loaded, rec, tx, inventory_is_new, failure)
         IN /\ inventory_records' = db.inventory_records
            /\ stock_transactions' = db.stock_transactions
            /\ IF failure # "none"
               THEN /\ last' = Result("adjust", 500, failure, b, d, n, <<>>)
                    /\ UNCHANGED accepted
               ELSE /\ last' = Result("adjust", 200, "none", b, d, n, <<tx>>)
                    /\ accepted' = [accepted EXCEPT ![b] = @ + 1]

\* Variant: the book is looked up first and a request for an id that has
\* no Book row is answered 404.
adjust_inventory_RequiresBook(b, d, n, fault) ==
    LET idx == FindInventory(inventory_records, b)
        inventory_is_new == idx = 0
        loaded == IF inventory_is_new THEN NewInventoryRecord(b, now)
                  ELSE inventory_records[idx]
    IN /\ \/ WouldGoNegative(loaded, d)
          \/ /\ Len(stock_transactions) < MaxTx
             /\ Explored(new_available(loaded, d))
       /\ IF b \notin DOMAIN books
          THEN /\ last' = Result("adjust", 404, "not_found", b, d, n, <<>>)
               /\ UNCHANGED <<inventory_records, stock_transactions,
                               accepted>>
          ELSE AdjustFrom(b, d, n, inventory_is_new, loaded, fault)
       /\ UNCHANGED <<books, now, req>>

\* Variant: the stock of a soft-deleted book is frozen, a request for it
\* being answered 404.
adjust_inventory_Frozen(b, d, n, fault) ==
    LET idx == FindInventory(inventory_records, b)
        inventory_is_new == idx = 0
        loaded == IF inventory_is_new THEN NewInventoryRecord(b, now)
                  ELSE inventory_records[idx]
    IN /\ \/ WouldGoNegative(loaded, d)
          \/ /\ Len(stock_transactions) < MaxTx
             /\ Explored(new_available(loaded, d))
       /\ IF b \in DOMAIN books /\ ~books[b].is_active
          THEN /\ last' = Result("adjust", 404, "not_found", b, d, n, <<>>)
               /\ UNCHANGED <<inventory_records, stock_transactions,
                               accepted>>
          ELSE AdjustFrom(b, d, n, inventory_is_new, loaded, fault)
       /\ UNCHANGED <<books, now, req>>

\* POST /api/v1/inventory/adjust served without interleaving.
adjust_inventory(b, d, n, fault) ==
    LET idx == FindInventory(inventory_records, b)
        inventory_is_new == idx = 0
        loaded == IF inventory_is_new THEN NewInventoryRecord(b, now)
                  ELSE inventory_records[idx]
    IN /\ \/ WouldGoNegative(loaded, d)
          \/ /\ Len(stock_transactions) < MaxTx
             /\ Explored(new_available(loaded, d))
       /\ AdjustFrom(b, d, n, inventory_is_new, loaded, fault)
       /\ UNCHANGED <<books, now, req>>

\* ----------------------------------------------------------- BookService
\* Variant: the lookup is by id alone, whatever is_active says.
get_book_by_id_AnyStatus(bks, b) ==
    IF b \in DOMAIN bks THEN <<bks[b]>> ELSE <<>>

\* get_book_by_id: the row with this id while it is active, as a sequence
\* of at most one row (empty for None).
get_book_by_id(bks, b) ==
    IF b \in DOMAIN bks /\ bks[b].is_active THEN <<bks[b]>> ELSE <<>>

\* The fields a BookUpdate body may carry; update_data is the function from
\* the fields the body sets (exclude_unset) to their values.  Every field
\* is Optional: a body may set title to null.
UpdateData ==
    {NoUpdate}
    \cup {[title |-> t] : t \in Titles \cup {"null"}}
    \cup {[price |-> p] : p \in Prices}
    \cup {[title |-> t, price |-> p] : t \in Titles, p \in Prices}

\* nullable=False of books.title, which the UPDATE must satisfy.
title_not_null(book) == book.title # "null"

\* The setattr loop of update_book, then the updated_at stamp.
apply_update_data(book, update_data, t) ==
    [f \in DOMAIN book |->
        IF f = "updated_at" THEN t
        ELSE IF f \in DOMAIN update_data THEN update_data[f]
        ELSE book[f]]

\* Variant: the flag is cleared and updated_at is left alone.
SoftDeleted_NoStamp(book, t) == [book EXCEPT !.is_active = FALSE]

\* The two assignments of delete_book.
SoftDeleted(book, t) == [book EXCEPT !.is_active = FALSE, !.updated_at = t]

\* Ids a fresh uuid4 cannot collide with: every id the database holds or a
\* request in flight names.
KnownIds ==
    DOMAIN books
    \cup {inventory_records[i].book_id : i \in 1..Len(inventory_records)}
    \cup {stock_transactions[i].book_id : i \in 1..Len(stock_transactions)}
    \cup {req[p].book_id : p \in Procs}

\* Variant: the book is committed before its inventory record is inserted
\* (as load_demo_data does), so a fault leaves the book alone.
CommitCreate_BookFirst(bks, inv, b, book, rec, failure) ==
    IF failure # "none"
    THEN [books |-> (b :> book) @@ bks, inventory_records |-> inv]
    ELSE [books |-> (b :> book) @@ bks,
          inventory_records |-> FlushInventory(inv, rec, rec, TRUE)]

\* Variant: the inventory record is stored although the transaction
\* failed.
CommitCreate_InventoryKept(bks, inv, b, book, rec, failure) ==
    IF failure # "none"
    THEN [books |-> bks,
          inventory_records |-> FlushInventory(inv, rec, rec, TRUE)]
    ELSE [books |-> (b :> book) @@ bks,
          inventory_records |-> FlushInventory(inv, rec, rec, TRUE)]

\* The commit that ends "with db.begin()": both INSERTs or neither.
CommitCreate(bks, inv, b, book, rec, failure) ==
    IF failure # "none"
    THEN [books |-> bks, inventory_records |-> inv]
    ELSE [books |-> (b :> book) @@ bks,
          inventory_records |-> FlushInventory(inv, rec, rec, TRUE)]

\* POST /api/v1/books: Book and zero-stock InventoryRecord in one
\* transaction; b is the uuid4 drawn for the book.
create_book(b, title, price, fault) ==
    LET rec == NewInventoryRecord(b, now)
        failure == FlushFailure(inventory_records, rec, TRUE, fault)
        db == CommitCreate(books, inventory_records, b, Book(title, price, now),
                           rec, failure)
    IN /\ b \notin KnownIds
       /\ books' = db.books
       /\ inventory_records' = db.inventory_records
       /\ last' = IF failure # "none"
                  THEN Result("create", 500, failure, b, 0, "null", <<>>)
                  ELSE Result("create", 201, "none", b, 0, "null", <<>>)
       /\ UNCHANGED <<stock_transactions, now, accepted, req>>

\* PUT /api/v1/books/{book_id}: the commit of an UPDATE that sets a NOT NULL
\* column to null fails and the handler answers 500.
update_book(b, update_data) ==
    /\ IF get_book_by_id(books, b) = <<>>
       THEN /\ last' = UpdateResult(404, "not_found", b, update_data)
            /\ UNCHANGED books
       ELSE LET book == apply_update_data(books[b], update_data, now)
            IN IF title_not_null(book)
               THEN /\ books' = [books EXCEPT ![b] = book]
                    /\ last' = UpdateResult(200, "none", b, update_data)
               ELSE /\ last' = UpdateResult(500, "not_null", b, update_data)
                    /\ UNCHANGED books
    /\ UNCHANGED <<inventory_records, stock_transactions, now, accepted, req>>

\* Variant: the row is deleted, and ON DELETE CASCADE takes the book's
\* inventory record and transactions with it.
delete_book_Cascade(b) ==
    LET OtherBook(row) == row.book_id # b
    IN /\ IF get_book_by_id(books, b) = <<>>
          THEN /\ last' = Result("delete", 404, "not_found", b, 0, "null",
                                 <<>>)
               /\ UNCHANGED <<books, inventory_records, stock_transactions>>
          ELSE /\ books' = [c \in DOMAIN books \ {b} |-> books[c]]
               /\ inventory_records' =
                     SelectSeq(inventory_records, OtherBook)
               /\ stock_transactions' =
                     SelectSeq(stock_transactions, OtherBook)
               /\ last' = Result("delete", 204, "none", b, 0, "null", <<>>)
       /\ UNCHANGED <<now, accepted, req>>

\* DELETE /api/v1/books/{book_id}
delete_book(b) ==
    /\ IF get_book_by_id(books, b) = <<>>
       THEN /\ last' = Result("delete", 404, "not_found", b, 0, "null", <<>>)
            /\ UNCHANGED books
       ELSE /\ books' = [books EXCEPT ![b] = SoftDeleted(@, now)]
            /\ last' = Result("delete", 204, "none", b, 0, "null", <<>>)
    /\ UNCHANGED <<inventory_records, stock_transactions, now, accepted, req>>

\* ---------------------------------------------------------------- queries
\* The orders in which a SELECT may return the set S of rows it matches:
\* without ORDER BY the order is the database's choice.
Orderings(S) ==
    {o \in [1..Cardinality(S) -> S] :
        \A i, j \in 1..Cardinality(S) : i # j => o[i] # o[j]}

\* query.offset(skip).limit(limit).all() over the rows in the order o.
OffsetLimit(o, skip, limit) ==
    SubSeq(o, skip + 1, IF skip + limit < Len(o) THEN skip + limit ELSE Len(o))

\* A Book row as a response carries it: the columns and the key.
BookResponse(bks, b) ==
    [id |-> b, title |-> bks[b].title, price |-> bks[b].price,
     is_active |-> bks[b].is_active, created_at |-> bks[b].created_at,
     updated_at |-> bks[b].updated_at]

\* GET /api/v1/books/{book_id}
get_book(b) ==
    LET book == get_book_by_id(books, b)
    IN /\ last' = IF book = <<>>
                  THEN QueryResult("get_book", 404, b, <<>>,
                                   PaginationMeta(0, 1, 1))
                  ELSE QueryResult("get_book", 200, b,
                                   <<BookResponse(books, b)>>,
                                   PaginationMeta(1, 1, 1))
       /\ UNCHANGED <<books, inventory_records, stock_transactions, now,
                       accepted, req>>

\* The ids query(Book) matches in get_books_with_availability.
BookQuery(bks, include_inactive) ==
    {b \in DOMAIN bks : include_inactive \/ bks[b].is_active}

\* Variant: stock at the reorder point does not count as low.
availability_StrictLow(inv, b) ==
    LET idx == FindInventory(inv, b)
    IN IF idx # 0
       THEN [quantity_available |-> inv[idx].quantity_available,
             in_stock |-> inv[idx].quantity_available > 0,
             low_stock |->
                 inv[idx].quantity_available < inv[idx].reorder_point]
       ELSE [quantity_available |-> 0, in_stock |-> FALSE,
             low_stock |-> TRUE]

\* The availability summary of one listed book.
availability(inv, b) ==
    LET idx == FindInventory(inv, b)
    IN IF idx # 0
       THEN [quantity_available |-> inv[idx].quantity_available,
             in_stock |-> inv[idx].quantity_available > 0,
             low_stock |->
                 inv[idx].quantity_available <= inv[idx].reorder_point]
       ELSE [quantity_available |-> 0, in_stock |-> FALSE,
             low_stock |-> TRUE]

\* get_books_with_availability: the page of the matched books, returned in
\* the order o, each with its availability; and the count of the matches.
get_books_with_availability(bks, inv, o, skip, limit, include_inactive) ==
    LET page == OffsetLimit(o, skip, limit)
    IN [items |->
           [k \in 1..Len(page) |->
               [id |-> page[k], title |-> bks[page[k]].title,
                price |-> bks[page[k]].price,
                availability |-> availability(inv, page[k])]],
        total |-> Cardinality(BookQuery(bks, include_inactive))]

\* GET /api/v1/books
list_books(page, per_page) ==
    \E o \in Orderings(BookQuery(books, FALSE)) :
        LET data == get_books_with_availability(
                        books, inventory_records, o, (page - 1) * per_page,
                        per_page, FALSE)
        IN /\ last' = QueryResult("list_books", 200, NoBook, data.items,
                           PaginationMeta(data.total, page, per_page))
           /\ UNCHANGED <<books, inventory_records, stock_transactions, now,
                           accepted, req>>

\* Variant: the join does not filter on Book.is_active.
InventoryQuery_IncludeInactive(inv, bks, low_stock_only) ==
    {i \in 1..Len(inv) :
        /\ inv[i].book_id \in DOMAIN bks
        /\ low_stock_only =>
              inv[i].quantity_available <= inv[i].reorder_point}

\* The rows of inventory_records the join with the active books matches in
\* get_inventory_list, filtered to low stock on request.
InventoryQuery(inv, bks, low_stock_only) ==
    {i \in 1..Len(inv) :
        /\ inv[i].book_id \in DOMAIN bks
        /\ bks[inv[i].book_id].is_active
        /\ low_stock_only =>
              inv[i].quantity_available <= inv[i].reorder_point}

\* The detail item both inventory queries return for a record and its book.
InventoryDetail(inv, bks, i) ==
    [inventory |-> inv[i], book |-> BookResponse(bks, inv[i].book_id)]

\* get_inventory_list
get_inventory_list(inv, bks, o, skip, limit, low_stock_only) ==
    LET page == OffsetLimit(o, skip, limit)
    IN [items |->
           [k \in 1..Len(page) |-> InventoryDetail(inv, bks, page[k])],
        total |-> Cardinality(InventoryQuery(inv, bks, low_stock_only))]

\* GET /api/v1/inventory
list_inventory(page, per_page, low_stock) ==
    \E o \in Orderings(InventoryQuery(inventory_records, books, low_stock)) :
        LET data == get_inventory_list(
                        inventory_records, books, o, (page - 1) * per_page,
                        per_page, low_stock)
        IN /\ last' =
                 [QueryResult("list_inventory", 200, NoBook, data.items,
                              PaginationMeta(data.total, page, per_page))
                     EXCEPT !.low_stock = low_stock]
           /\ UNCHANGED <<books, inventory_records, stock_transactions, now,
                           accepted, req>>

\* Variant: the Book is looked up among the active books.
get_inventory_by_book_id_ActiveOnly(inv, bks, b) ==
    LET idx == FindInventory(inv, b)
    IN IF idx = 0 THEN <<>>
       ELSE IF get_book_by_id(bks, b) = <<>> THEN <<>>
       ELSE <<InventoryDetail(inv, bks, idx)>>

\* get_inventory_by_book_id: the detail, as a sequence of at most one item
\* (empty for None).  The Book is looked up by id alone.
get_inventory_by_book_id(inv, bks, b) ==
    LET idx == FindInventory(inv, b)
    IN IF idx = 0 THEN <<>>
       ELSE IF b \notin DOMAIN bks THEN <<>>
       ELSE <<InventoryDetail(inv, bks, idx)>>

\* GET /api/v1/inventory/{book_id}
get_book_inventory(b) ==
    LET inventory_data == get_inventory_by_book_id(inventory_records, books, b)
    IN /\ last' = IF inventory_data = <<>>
                  THEN QueryResult("get_book_inventory", 404, b, <<>>,
                                   PaginationMeta(0, 1, 1))
                  ELSE QueryResult("get_book_inventory", 200, b,
                                   inventory_data, PaginationMeta(1, 1, 1))
       /\ UNCHANGED <<books, inventory_records, stock_transactions, now,
                       accepted, req>>

\* The rows query(StockTransaction) matches in get_transactions; book_id is
\* Optional, NoBook standing for None.
TransactionQuery(txs, book_id) ==
    {i \in 1..Len(txs) : book_id = NoBook \/ txs[i].book_id = book_id}

\* order_by(StockTransaction.timestamp.desc()): the orders the database may
\* return, rows of equal timestamp in either order.
TimestampDesc(txs, o) ==
    \A k, l \in 1..Len(o) :
        k < l => txs[o[k]].timestamp >= txs[o[l]].timestamp

\* get_transactions
get_transactions(txs, o, book_id, skip, limit) ==
    LET page == OffsetLimit(o, skip, limit)
    IN [items |-> [k \in 1..Len(page) |-> txs[page[k]]],
        total |-> Cardinality(TransactionQuery(txs, book_id))]

\* GET /api/v1/transactions
list_transactions(page, per_page, book_id) ==
    \E o \in Orderings(TransactionQuery(stock_transactions, book_id)) :
        LET data == get_transactions(stock_transactions, o, book_id,
                                     (page - 1) * per_page, per_page)
        IN /\ TimestampDesc(stock_transactions, o)
           /\ last' = QueryResult("list_transactions", 200, book_id,
                           data.items,
                           PaginationMeta(data.total, page, per_page))
           /\ UNCHANGED <<books, inventory_records, stock_transactions, now,
                           accepted, req>>

\* ------------------------------------------ adjust, one round trip a step
\* The query of adjust_inventory and the materialization that follows it:
\* the session now holds the record as it was stored at this moment.
AdjustBegin(p, b, d, n) ==
    LET idx == FindInventory(inventory_records, b)
        inventory_is_new == idx = 0
        loaded == IF inventory_is_new THEN NewInventoryRecord(b, now)
                  ELSE inventory_records[idx]
        inflight == Cardinality({q \in Procs : req[q].pc = "loaded"})
    IN /\ req[p].pc = "idle"
       /\ \/ WouldGoNegative(loaded, d)
          \/ /\ Len(stock_transactions) + inflight < MaxTx
             /\ Explored(new_available(loaded, d))
       /\ req' = [req EXCEPT ![p] = [pc |-> "loaded", book_id |-> b,
                                     delta |-> d, notes |-> n,
                                     inventory_is_new |-> inventory_is_new,
                                     rec |-> loaded]]
       /\ UNCHANGED <<books, inventory_records, stock_transactions, now,
                       last, accepted>>

\* The rest of adjust_inventory, computed from what the session loaded and
\* flushed to the tables as they are now.
AdjustFinish(p, fault) ==
    /\ req[p].pc = "loaded"
    /\ AdjustFrom(req[p].book_id, req[p].delta, req[p].notes,
                  req[p].inventory_is_new, req[p].rec, fault)
    /\ req' = [req EXCEPT ![p] = IdleReq]
    /\ UNCHANGED <<books, now>>

\* The wall clock (datetime.utcnow(), func.now()) moves on between requests.
Tick ==
    /\ now < MaxClock
    /\ now' = now + 1
    /\ UNCHANGED <<books, inventory_records, stock_transactions, last,
                    accepted, req>>

\* ------------------------------------------------------- specifications
\* Requests served one at a time.
Next ==
    \/ \E b \in BookIds, d \in Deltas, n \in NotesVals, fault \in BOOLEAN :
          adjust_inventory(b, d, n, fault)
    \/ \E b \in BookIds, t \in Titles, p \in Prices, fault \in BOOLEAN :
          create_book(b, t, p, fault)
    \/ \E b \in BookIds, u \in UpdateData : update_book(b, u)
    \/ \E b \in BookIds : delete_book(b)

Spec == Init /\ [][Next]_vars

\* Adjust requests of several sessions interleaved at their round trips to
\* the database, next to book creation and deletion.
NextConc ==
    \/ \E p \in Procs, b \in BookIds, d \in Deltas :
          AdjustBegin(p, b, d, "null")
    \/ \E p \in Procs : AdjustFinish(p, FALSE)
    \/ \E b \in BookIds : create_book(b, "A", 10, FALSE)
    \/ \E b \in BookIds : delete_book(b)

SpecConc == Init /\ [][NextConc]_vars

\* The requests an adjustment may carry when the queries are served too: a
\* restock that reaches the reorder point is among them.
DeltasRead == Deltas \cup {LOW_STOCK_THRESHOLD}

\* Requests served one at a time, the queries among them.
NextRead ==
    \/ \E b \in BookIds, d \in DeltasRead :
          adjust_inventory(b, d, "null", FALSE)
    \/ \E b \in BookIds, t \in Titles : create_book(b, t, 10, FALSE)
    \/ \E b \in BookIds, u \in UpdateData : update_book(b, u)
    \/ \E b \in BookIds : delete_book(b)
    \/ \E b \in BookIds : get_book(b)
    \/ \E page \in Pages, per_page \in PerPages : list_books(page, per_page)
    \/ \E page \in Pages, per_page \in PerPages, low_stock \in BOOLEAN :
          list_inventory(page, per_page, low_stock)
    \/ \E b \in BookIds : get_book_inventory(b)
    \/ \E page \in Pages, per_page \in PerPages,
          b \in BookIds \cup {NoBook} : list_transactions(page, per_page, b)

SpecRead == Init /\ [][NextRead]_vars

\* The changes of one unit, enough to tell the rows of the log apart by
\* their order.
UnitDeltas == {0 - 1, 1}

\* Requests served one at a time while the clock moves on: requests served
\* before the next Tick read the same time (CURRENT_TIMESTAMP counts
\* seconds).
NextClock ==
    \/ \E b \in BookIds, d \in UnitDeltas :
          adjust_inventory(b, d, "null", FALSE)
    \/ \E b \in BookIds : create_book(b, "A", 10, FALSE)
    \/ \E b \in BookIds, u \in UpdateData : update_book(b, u)
    \/ \E b \in BookIds : delete_book(b)
    \/ Tick
    \/ \E page \in Pages, per_page \in PerPages,
          b \in BookIds \cup {NoBook} : list_transactions(page, per_page, b)

SpecClock == Init /\ [][NextClock]_vars

\* A store of k books, created one after the other within one second, and
\* of k adjustments by zero of the first of them, a second apart.
PagedBooks(k) == [b \in {PagedIds[i] : i \in 1..k} |-> Book("A", 10, 0)]
PagedInventory(k) ==
    [i \in 1..k |->
        [NewInventoryRecord(PagedIds[i], 0)
            EXCEPT !.id = i, !.updated_at = IF i = 1 THEN k ELSE 0]]
PagedTransactions(k) ==
    [i \in 1..k |->
        StockTransaction(i, PagedIds[1], transaction_type(0), 0, "null", i)]

InitPaged ==
    \E k \in 0..MaxRows :
        /\ books = PagedBooks(k)
        /\ inventory_records = PagedInventory(k)
        /\ stock_transactions = PagedTransactions(k)
        /\ now = k
        /\ last = Result("none", 0, "none", NoBook, 0, "null", <<>>)
        /\ accepted = [b \in BookIds |-> IF b = PagedIds[1] THEN k ELSE 0]
        /\ req = [p \in Procs |-> IdleReq]

\* The three listings, paged over stores of every size up to MaxRows.
NextPaged ==
    \/ \E page \in PagedPages, per_page \in PagedPerPages :
          list_books(page, per_page)
    \/ \E page \in PagedPages, per_page \in PagedPerPages,
          low_stock \in BOOLEAN : list_inventory(page, per_page, low_stock)
    \/ \E page \in PagedPages, per_page \in PagedPerPages,
          b \in {PagedIds[1], PagedIds[2], NoBook} :
          list_transactions(page, per_page, b)

SpecPaged == InitPaged /\ [][NextPaged]_vars

\* ------------------------------------------------------------------ claims
\* The quantities stored for book b in the table inv, 0 when it has no row.
RowsOf(inv, b) == {i \in 1..Len(inv) : inv[i].book_id = b}
AvailableIn(inv, b) ==
    IF RowsOf(inv, b) = {} THEN 0
    ELSE inv[CHOOSE i \in RowsOf(inv, b) : TRUE].quantity_available
TotalIn(inv, b) ==
    IF RowsOf(inv, b) = {} THEN 0
    ELSE inv[CHOOSE i \in RowsOf(inv, b) : TRUE].quantity_total
TxOf(txs, b) == {i \in 1..Len(txs) : txs[i].book_id = b}

\* This step serves a request of the handler op (the steps that serve none
\* are those of the clock); last' is its response.
Served(op) == last'.op = op /\ now' = now

\* C1: whatever adjust calls (accepted or rejected) and book creations,
\* updates and deletions have been served, every stored InventoryRecord has
\* quantity_available >= 0 and quantity_total >= 0; the service enforces
\* this before any write, so the table's CHECK constraints never have to
\* refuse one.
C1_QuantitiesNonNegative ==
    /\ \A i \in 1..Len(inventory_records) :
          /\ inventory_records[i].quantity_available >= 0
          /\ inventory_records[i].quantity_total >= 0
    /\ last.cause # "check"

C1_Witness ==
    /\ last.op = "adjust" /\ last.status = 400
    /\ AvailableIn(inventory_records, last.book_id) > 0
    /\ \E b \in DOMAIN books : ~books[b].is_active

\* C2: adjust(b, delta) is rejected (400, no transaction returned) exactly
\* when the stored available or total quantity of b (0 without a record)
\* plus delta is negative; a rejected call leaves inventory_records as it
\* was, creates no record for a book that had none and adds no
\* StockTransaction row.
C2_RejectedIffNegative ==
    [][last'.op = "adjust" =>
        LET b == last'.book_id
            d == last'.delta
        IN /\ (last'.status = 400) <=>
                 (AvailableIn(inventory_records, b) + d < 0
                  \/ TotalIn(inventory_records, b) + d < 0)
           /\ last'.status = 400 =>
                 /\ last'.tx = <<>>
                 /\ inventory_records' = inventory_records
                 /\ stock_transactions' = stock_transactions]_vars

C2_Witness ==
    /\ last.op = "adjust" /\ last.status = 400 /\ last.delta = 0 - 1
    /\ RowsOf(inventory_records, last.book_id) = {}
    /\ \E b \in BookIds : AvailableIn(inventory_records, b) = 2

\* C3: an accepted adjust(b, delta, notes) adds delta to both
\* quantity_available and quantity_total of b's record and returns a
\* StockTransaction carrying the request's book id, delta and notes.
C3_AcceptedAppliesDelta ==
    [][(last'.op = "adjust" /\ last'.status = 200) =>
        LET b == last'.book_id
            d == last'.delta
        IN /\ RowsOf(inventory_records', b) # {}
           /\ AvailableIn(inventory_records', b) =
                 AvailableIn(inventory_records, b) + d
           /\ TotalIn(inventory_records', b) =
                 TotalIn(inventory_records, b) + d
           /\ Len(last'.tx) = 1
           /\ last'.tx[1].book_id = b
           /\ last'.tx[1].quantity_change = d
           /\ last'.tx[1].notes = last'.notes]_vars

C3_Witness ==
    /\ last.op = "adjust" /\ last.status = 200
    /\ last.delta = 0 - 1 /\ last.notes = "restock"
    /\ Len(stock_transactions) = 2
    /\ stock_transactions[1].book_id = last.book_id
    /\ stock_transactions[1].quantity_change = 2
    /\ AvailableIn(inventory_records, last.book_id) = 1
    /\ TotalIn(inventory_records, last.book_id) = 1

\* C4: for every book id the number of StockTransaction rows equals the
\* number of accepted adjust calls; an accepted call adds exactly one row
\* and a rejected or failed one adds none.
C4_TransactionParity ==
    [][/\ \A b \in BookIds :
             Cardinality(TxOf(stock_transactions', b)) = accepted'[b]
       /\ last'.op = "adjust" =>
             Len(stock_transactions') =
                 Len(stock_transactions)
                 + (IF last'.status = 200 THEN 1 ELSE 0)]_vars

C4_Witness ==
    /\ last.op = "adjust" /\ last.status = 400
    /\ accepted[last.book_id] = 2
    /\ Cardinality(TxOf(stock_transactions, last.book_id)) = 2

\* C5: the transaction_type of every StockTransaction follows the sign of
\* its quantity_change: stock_in iff positive, stock_out iff negative,
\* adjustment iff zero.
C5_TypeFollowsSign ==
    \A i \in 1..Len(stock_transactions) :
        LET t == stock_transactions[i]
        IN /\ t.transaction_type \in {"stock_in", "stock_out", "adjustment"}
           /\ (t.transaction_type = "stock_in") <=> (t.quantity_change > 0)
           /\ (t.transaction_type = "stock_out") <=> (t.quantity_change < 0)
           /\ (t.transaction_type = "adjustment") <=> (t.quantity_change = 0)

C5_Witness ==
    /\ Len(stock_transactions) = 2
    /\ {stock_transactions[1].transaction_type,
        stock_transactions[2].transaction_type}
          \in {{"stock_in", "stock_out"}, {"adjustment", "stock_in"}}
    /\ last.op = "adjust" /\ last.status = 200

C7_AdjustAtomic ==
    [][last'.op = "adjust" =>
          LET b == last'.book_id
              d == last'.delta
          IN /\ last'.status = 500 =>
                  /\ inventory_records' = inventory_records
                  /\ stock_transactions' = stock_transactions
             /\ inventory_records' # inventory_records =>
                  Len(stock_transactions') = Len(stock_transactions) + 1
             /\ stock_transactions' # stock_transactions =>
                  /\ RowsOf(inventory_records', b) # {}
                  /\ AvailableIn(inventory_records', b) =
                        AvailableIn(inventory_records, b) + d
                  /\ stock_transactions' =
                        Append(stock_transactions, last'.tx[1])]_vars

C7_Witness ==
    /\ last.op = "adjust" /\ last.status = 500 /\ last.cause = "fault"
    /\ last.delta = 1
    /\ RowsOf(inventory_records, last.book_id) = {}
    /\ Len(stock_transactions) = 1

\* C8: create is atomic: on success the store holds the new active Book
\* and exactly one InventoryRecord for its id, with quantity_available = 0,
\* quantity_total = 0 and reorder_point = the low-stock threshold; when an
\* insert fails, neither the Book nor the InventoryRecord is stored.
C8_CreateAtomic ==
    [][last'.op = "create" =>
          LET b == last'.book_id
          IN /\ last'.status = 201 =>
                  /\ b \notin DOMAIN books
                  /\ b \in DOMAIN books' /\ books'[b].is_active
                  /\ Cardinality(RowsOf(inventory_records', b)) = 1
                  /\ \A i \in RowsOf(inventory_records', b) :
                        /\ inventory_records'[i].quantity_available = 0
                        /\ inventory_records'[i].quantity_total = 0
                        /\ inventory_records'[i].reorder_point =
                              LOW_STOCK_THRESHOLD
             /\ last'.status # 201 =>
                  books' = books /\ inventory_records' = inventory_records]_vars

C8_Witness ==
    /\ last.op = "create" /\ last.status = 500
    /\ last.book_id \notin DOMAIN books
    /\ RowsOf(inventory_records, last.book_id) = {}
    /\ Cardinality(DOMAIN books) = 1
    /\ Len(inventory_records) = 1

\* C9: each book has exactly one InventoryRecord and no book id ever has
\* more than one; adjust materializes a record only for an id that has
\* none (so the UNIQUE constraint never has to refuse it), and no step
\* removes a record or changes the book it belongs to.
C9_OneRecordPerBook ==
    [][/\ \A b \in DOMAIN books' :
             Cardinality(RowsOf(inventory_records', b)) = 1
       /\ \A b \in BookIds :
             Cardinality(RowsOf(inventory_records', b)) <= 1
       /\ last'.cause # "unique"
       /\ Len(inventory_records') >= Len(inventory_records)
       /\ \A i \in 1..Len(inventory_records) :
             /\ inventory_records'[i].id = inventory_records[i].id
             /\ inventory_records'[i].book_id = inventory_records[i].book_id
       /\ (/\ Len(inventory_records') > Len(inventory_records)
           /\ last'.op = "adjust") =>
             RowsOf(inventory_records, last'.book_id) = {}]_vars

C9_Witness ==
    /\ Len(inventory_records) = 2
    /\ \E b \in DOMAIN books : accepted[b] = 1 /\ ~books[b].is_active
    /\ \E b \in BookIds \ DOMAIN books : accepted[b] = 1
    /\ last.op = "adjust" /\ last.status = 200

C12_LogAppendOnly ==
    [][/\ Len(stock_transactions') >= Len(stock_transactions)
       /\ \A i \in 1..Len(stock_transactions) :
             stock_transactions'[i] = stock_transactions[i]
       /\ stock_transactions' # stock_transactions =>
             /\ Len(stock_transactions') = Len(stock_transactions) + 1
             /\ last'.op = "adjust" /\ last'.status = 200]_vars

C12_Witness ==
    /\ last.op = "list_transactions" /\ Len(last.body.items) = 2
    /\ Len(stock_transactions) = 2
    /\ stock_transactions[1].book_id = stock_transactions[2].book_id
    /\ stock_transactions[1].quantity_change = 2
    /\ stock_transactions[2].quantity_change = 0 - 1
    /\ \E b \in DOMAIN books : ~books[b].is_active

\* C13: getById returns a book exactly while it is_active; a successful
\* delete leaves the book inactive, and no step of any operation makes an
\* inactive book active again or removes its row, so getById answers
\* not-found for it in every later state.
C13_DeletedStaysHidden ==
    [][/\ last'.op = "get_book" =>
             /\ (last'.status = 200) <=>
                   /\ last'.book_id \in DOMAIN books
                   /\ books[last'.book_id].is_active
             /\ last'.status # 200 =>
                   last'.status = 404 /\ last'.body.items = <<>>
             /\ last'.status = 200 =>
                   /\ Len(last'.body.items) = 1
                   /\ last'.body.items[1].id = last'.book_id
                   /\ last'.body.items[1].is_active
       /\ (last'.op = "delete" /\ last'.status = 204) =>
             /\ last'.book_id \in DOMAIN books'
             /\ ~books'[last'.book_id].is_active
       /\ \A b \in DOMAIN books :
             ~books[b].is_active =>
                 b \in DOMAIN books' /\ ~books'[b].is_active]_vars

C13_Witness ==
    /\ last.op = "get_book" /\ last.status = 404
    /\ last.book_id \in DOMAIN books
    /\ ~books[last.book_id].is_active
    /\ accepted[last.book_id] = 2
    /\ \E b \in DOMAIN books : books[b].is_active

C15_UpdateAppliesSupplied ==
    [][Served("update") =>
          LET b == last'.book_id
              u == last'.update_data
          IN /\ inventory_records' = inventory_records
             /\ stock_transactions' = stock_transactions
             /\ DOMAIN books' = DOMAIN books
             /\ \A c \in DOMAIN books : c # b => books'[c] = books[c]
             /\ IF b \in DOMAIN books /\ books[b].is_active
                THEN /\ last'.status = 200
                     /\ \A f \in DOMAIN books[b] :
                           books'[b][f] =
                               IF f \in DOMAIN u THEN u[f]
                               ELSE IF f = "updated_at" THEN now
                               ELSE books[b][f]
                ELSE /\ last'.status = 404
                     /\ books' = books]_vars

\* What the code does for the requests that set no required column to
\* null: the same, for a request answered 200.
C15_WitnessApplied ==
    /\ last.op = "update" /\ last.status = 200
    /\ DOMAIN last.update_data = {"title"}
    /\ books[last.book_id].title = "B"
    /\ books[last.book_id].created_at = 0
    /\ books[last.book_id].updated_at = 1

\* C16: catalog operations never touch existing stock or history: create,
\* update and delete of a book leave quantity_available, quantity_total and
\* reorder_point of every existing InventoryRecord, and the Transaction Log,
\* as they were; a stored quantity changes only in an accepted adjust.
C16_CatalogLeavesStock ==
    [][/\ (Served("create") \/ Served("update") \/ Served("delete")) =>
             /\ stock_transactions' = stock_transactions
             /\ Len(inventory_records') >= Len(inventory_records)
             /\ \A i \in 1..Len(inventory_records) :
                   /\ inventory_records'[i].book_id =
                         inventory_records[i].book_id
                   /\ inventory_records'[i].quantity_available =
                         inventory_records[i].quantity_available
                   /\ inventory_records'[i].quantity_total =
                         inventory_records[i].quantity_total
                   /\ inventory_records'[i].reorder_point =
                         inventory_records[i].reorder_point
       /\ (\E b \in BookIds :
              /\ RowsOf(inventory_records, b) # {}
              /\ \/ RowsOf(inventory_records', b) = {}
                 \/ AvailableIn(inventory_records', b) #
                       AvailableIn(inventory_records, b)
                 \/ TotalIn(inventory_records', b) #
                       TotalIn(inventory_records, b)) =>
             last'.op = "adjust" /\ last'.status = 200]_vars

C16_Witness ==
    /\ last.op = "delete" /\ last.status = 204
    /\ AvailableIn(inventory_records, last.book_id) = 2
    /\ TotalIn(inventory_records, last.book_id) = 2
    /\ Cardinality(TxOf(stock_transactions, last.book_id)) = 2
    /\ Cardinality(DOMAIN books) = 2

\* C17: listWithAvailability (without includeInactive) lists only active
\* books, each once, and all of them on a first page that has room;
\* total is the number of active books; each listed book carries
\* {quantity_available = q, in_stock = (q > 0), low_stock = (q <=
\* reorder_point)} of its InventoryRecord, or {0, false, true} without one.
C17_ListWithAvailability ==
    [][Served("list_books") =>
          LET items == last'.body.items
              active == {b \in DOMAIN books : books[b].is_active}
              listed == {items[k].id : k \in 1..Len(items)}
          IN /\ last'.status = 200
             /\ last'.body.pagination.total = Cardinality(active)
             /\ listed \subseteq active
             /\ Cardinality(listed) = Len(items)
             /\ (/\ last'.body.pagination.page = 1
                 /\ last'.body.pagination.per_page >= Cardinality(active))
                   => listed = active
             /\ \A k \in 1..Len(items) :
                   LET b == items[k].id
                       q == AvailableIn(inventory_records, b)
                       a == items[k].availability
                   IN IF RowsOf(inventory_records, b) # {}
                      THEN /\ a.quantity_available = q
                           /\ a.in_stock = (q > 0)
                           /\ a.low_stock =
                                 \A i \in RowsOf(inventory_records, b) :
                                    q <= inventory_records[i].reorder_point
                      ELSE /\ a.quantity_available = 0
                           /\ a.in_stock = FALSE
                           /\ a.low_stock = TRUE]_vars

C17_Witness ==
    /\ last.op = "list_books" /\ Len(last.body.items) = 2
    /\ last.body.pagination.total = 2
    /\ \E k \in 1..2 :
          /\ last.body.items[k].availability.quantity_available =
                LOW_STOCK_THRESHOLD
          /\ last.body.items[k].availability.low_stock
          /\ last.body.items[k].availability.in_stock
    /\ \E k \in 1..2 :
          /\ last.body.items[k].availability.quantity_available = 0
          /\ ~last.body.items[k].availability.in_stock

\* C18: listInventory(lowStockOnly = true) returns exactly the
\* InventoryRecords whose book exists and is active and whose
\* quantity_available <= reorder_point, the boundary included, with their
\* books; so a book restocked above its reorder point is no longer listed.
C18_LowStockListing ==
    [][(Served("list_inventory") /\ last'.low_stock) =>
          LET items == last'.body.items
              low == {i \in 1..Len(inventory_records) :
                        /\ inventory_records[i].book_id \in DOMAIN books
                        /\ books[inventory_records[i].book_id].is_active
                        /\ inventory_records[i].quantity_available <=
                              inventory_records[i].reorder_point}
              listed == {items[k].inventory : k \in 1..Len(items)}
          IN /\ last'.status = 200
             /\ last'.body.pagination.total = Cardinality(low)
             /\ listed \subseteq {inventory_records[i] : i \in low}
             /\ Cardinality(listed) = Len(items)
             /\ (/\ last'.body.pagination.page = 1
                 /\ last'.body.pagination.per_page >= Cardinality(low))
                   => listed = {inventory_records[i] : i \in low}
             /\ \A k \in 1..Len(items) :
                   /\ items[k].book.id = items[k].inventory.book_id
                   /\ items[k].book.is_active]_vars

C18_Witness ==
    /\ last.op = "list_inventory" /\ last.low_stock
    /\ last.body.pagination.page = 1
    /\ Len(last.body.items) = 1
    /\ last.body.items[1].inventory.quantity_available = 0
    /\ \A b \in BookIds : b \in DOMAIN books /\ books[b].is_active
    /\ \E b \in BookIds :
          /\ accepted[b] = 2
          /\ AvailableIn(inventory_records, b) = LOW_STOCK_THRESHOLD + 1

\* C19: getByBookId(b) returns the combined inventory and book detail
\* exactly when an InventoryRecord with book_id b and a Book row with id b
\* both exist, and not-found (404) otherwise; so for an id whose record
\* adjust materialized without a Book row it answers not-found.
C19_DetailNeedsBoth ==
    [][Served("get_book_inventory") =>
          LET b == last'.book_id
              items == last'.body.items
          IN /\ (last'.status = 200) <=>
                   (RowsOf(inventory_records, b) # {} /\ b \in DOMAIN books)
             /\ last'.status # 200 =>
                   last'.status = 404 /\ items = <<>>
             /\ last'.status = 200 =>
                   /\ Len(items) = 1
                   /\ \E i \in RowsOf(inventory_records, b) :
                         items[1].inventory = inventory_records[i]
                   /\ items[1].book.id = b
                   /\ items[1].book.title = books[b].title
                   /\ items[1].book.is_active = books[b].is_active]_vars

C19_Witness ==
    /\ last.op = "get_book_inventory" /\ last.status = 404
    /\ last.book_id \notin DOMAIN books
    /\ accepted[last.book_id] = 1
    /\ AvailableIn(inventory_records, last.book_id) = 2
    /\ \E b \in DOMAIN books : ~books[b].is_active

\* C20 as stated: listTransactions returns the rows of the log, all or
\* those of the given book, most recent first: a row committed after
\* another precedes it in the listing (rows are numbered in the order of
\* their commits); total is the number of rows the filter matches,
\* whatever skip and limit are.
C20_MostRecentFirst ==
    [][Served("list_transactions") =>
          LET items == last'.body.items
              matching ==
                  {i \in 1..Len(stock_transactions) :
                      \/ last'.book_id = NoBook
                      \/ stock_transactions[i].book_id = last'.book_id}
          IN /\ last'.status = 200
             /\ last'.body.pagination.total = Cardinality(matching)
             /\ \A k \in 1..Len(items) :
                   \E i \in matching : items[k] = stock_transactions[i]
             /\ \A k, l \in 1..Len(items) :
                   k < l => items[k].id > items[l].id]_vars

\* Two adjustments served within one reading of the clock, listed oldest
\* first.
C20_WitnessTie ==
    /\ last.op = "list_transactions" /\ Len(last.body.items) = 2
    /\ last.body.items[1].id = 1 /\ last.body.items[2].id = 2
    /\ last.body.items[1].timestamp = last.body.items[2].timestamp
    /\ last.body.pagination.total = 2

C23_AvailableEqualsTotal ==
    /\ \A i \in 1..Len(inventory_records) :
          inventory_records[i].quantity_available
              = inventory_records[i].quantity_total
    /\ \A p \in Procs :
          req[p].pc = "loaded" =>
              /\ req[p].rec.quantity_available = req[p].rec.quantity_total
              /\ ~(/\ new_available(req[p].rec, req[p].delta) >= 0
                   /\ new_total(req[p].rec, req[p].delta) < 0)

\* A record holding 2 and 2 while a session that loaded it at 0 and 0 is
\* about to commit a change of 1, and another session is about to be
\* refused.
C23_Witness ==
    \E i \in 1..Len(inventory_records), p, q \in Procs :
        /\ inventory_records[i].quantity_available = 2
        /\ inventory_records[i].quantity_total = 2
        /\ req[p].pc = "loaded" /\ req[q].pc = "loaded" /\ p # q
        /\ req[p].book_id = inventory_records[i].book_id
        /\ req[p].rec.quantity_available = 0 /\ req[p].delta = 1
        /\ WouldGoNegative(req[q].rec, req[q].delta)

\* The sum of quantity_change over the rows i.. of the log that are of
\* book b.
RECURSIVE SumOfChanges(_, _, _)
SumOfChanges(txs, b, i) ==
    IF i > Len(txs) THEN 0
    ELSE (IF txs[i].book_id = b THEN txs[i].quantity_change ELSE 0)
         + SumOfChanges(txs, b, i + 1)

\* C24: with requests served one at a time, the quantity_available (and
\* the quantity_total) stored for a book equals the sum of quantity_change
\* over the StockTransaction rows of that book, after any sequence of
\* accepted, rejected and failed adjust calls; a book without a record has
\* no rows.
C24_Conservation ==
    \A b \in BookIds :
        /\ AvailableIn(inventory_records, b)
              = SumOfChanges(stock_transactions, b, 1)
        /\ RowsOf(inventory_records, b) = {} =>
              TxOf(stock_transactions, b) = {}

\* Stock of 1 after a receipt of 2 and an issue of 1, the issue of 2 that
\* followed having been refused.
C24_Witness ==
    /\ last.op = "adjust" /\ last.status = 400 /\ last.delta = 0 - 2
    /\ Len(stock_transactions) = 2
    /\ stock_transactions[1].quantity_change = 2
    /\ stock_transactions[2].quantity_change = 0 - 1
    /\ stock_transactions[1].book_id = last.book_id
    /\ stock_transactions[2].book_id = last.book_id
    /\ AvailableIn(inventory_records, last.book_id) = 1

\* C25: however the query and the commit of concurrent adjust calls
\* interleave, every stored quantity_available and quantity_total is >= 0
\* and no commit has to be refused by a CHECK constraint: a call writes
\* the quantities it validated, loaded ones plus its change, whatever is
\* stored by then.
C25_NonNegativeUnderInterleaving ==
    /\ \A i \in 1..Len(inventory_records) :
          /\ ck_inventory_nonneg_available(inventory_records[i])
          /\ ck_inventory_nonneg_total(inventory_records[i])
    /\ \A p \in Procs :
          req[p].pc = "loaded" =>
              /\ req[p].rec.quantity_available >= 0
              /\ req[p].rec.quantity_total >= 0
    /\ last.cause \notin {"check"}

\* Two sessions loaded an empty record; one committed a receipt of 2, the
\* other then committed a receipt of 1: the record holds 1, the log sums
\* to 3.
C25_Witness ==
    \E b \in BookIds :
        /\ Len(stock_transactions) = 2
        /\ TxOf(stock_transactions, b) = {1, 2}
        /\ stock_transactions[1].quantity_change = 2
        /\ stock_transactions[2].quantity_change = 1
        /\ AvailableIn(inventory_records, b) = 1
        /\ TotalIn(inventory_records, b) = 1
        /\ SumOfChanges(stock_transactions, b, 1) = 3
        /\ last.op = "adjust" /\ last.status = 200

\* C26: when two sessions serve adjust calls for a book_id that has no
\* InventoryRecord, each materializes a record of its own; the one that
\* commits first stores its record and its row, and the other, whose change
\* passed the validation, fails at its commit on the uniqueness of book_id:
\* it is answered 500 and leaves neither a second record nor its
\* StockTransaction.  No book_id ever has more than one record.
C26_MaterializeRace ==
    [][/\ \A p \in Procs :
             (/\ req[p].pc = "loaded" /\ req'[p].pc = "idle"
              /\ req[p].inventory_is_new
              /\ ~WouldGoNegative(req[p].rec, req[p].delta)) =>
                 IF RowsOf(inventory_records, req[p].book_id) # {}
                 THEN /\ last'.op = "adjust" /\ last'.status = 500
                      /\ last'.book_id = req[p].book_id
                      /\ inventory_records' = inventory_records
                      /\ stock_transactions' = stock_transactions
                 ELSE /\ last'.op = "adjust" /\ last'.status = 200
                      /\ Len(inventory_records') = Len(inventory_records) + 1
                      /\ Len(stock_transactions')
                            = Len(stock_transactions) + 1
       /\ \A b \in BookIds :
             Cardinality(RowsOf(inventory_records', b)) <= 1]_vars

\* Both sessions had materialized a record for the same id; the receipt of
\* 2 was committed and the receipt of 1 has just failed.
C26_Witness ==
    /\ last.op = "adjust" /\ last.status = 500 /\ last.cause = "unique"
    /\ last.delta = 1
    /\ \A p \in Procs : req[p].pc = "idle"
    /\ Cardinality(RowsOf(inventory_records, last.book_id)) = 1
    /\ AvailableIn(inventory_records, last.book_id) = 2
    /\ Len(stock_transactions) = 1
    /\ stock_transactions[1].book_id = last.book_id
    /\ stock_transactions[1].quantity_change = 2
    /\ accepted[last.book_id] = 1

\* The books that were soft-deleted.
SoftDeletedIds == {b \in DOMAIN books : ~books[b].is_active}

\* C27: soft deletion does not freeze stock.  An adjust for a soft-deleted
\* book is decided as for an active one: refused with 400 exactly when the
\* stored quantity plus the change is negative, otherwise it adds the
\* change to both quantities and one row to the log.  The listings of the
\* inventory and of the books with availability hold no soft-deleted book;
\* the inventory detail of a soft-deleted book is still returned, with
\* is_active = false and the quantities stored.
C27_DeletedBookStock ==
    [][/\ (Served("adjust") /\ last'.book_id \in SoftDeletedIds) =>
             LET b == last'.book_id
                 sum == AvailableIn(inventory_records, b) + last'.delta
             IN /\ last'.status = IF sum < 0 THEN 400 ELSE 200
                /\ books' = books
                /\ IF sum < 0
                   THEN /\ inventory_records' = inventory_records
                        /\ stock_transactions' = stock_transactions
                   ELSE /\ AvailableIn(inventory_records', b) = sum
                        /\ TotalIn(inventory_records', b)
                              = TotalIn(inventory_records, b) + last'.delta
                        /\ Len(stock_transactions')
                              = Len(stock_transactions) + 1
                        /\ stock_transactions'[Len(stock_transactions')]
                               .book_id = b
                        /\ stock_transactions'[Len(stock_transactions')]
                               .quantity_change = last'.delta
       /\ Served("list_inventory") =>
             \A k \in 1..Len(last'.body.items) :
                 last'.body.items[k].inventory.book_id \notin SoftDeletedIds
       /\ Served("list_books") =>
             \A k \in 1..Len(last'.body.items) :
                 last'.body.items[k].id \notin SoftDeletedIds
       /\ (Served("get_book_inventory") /\ last'.book_id \in SoftDeletedIds) =>
             /\ last'.status = 200
             /\ Len(last'.body.items) = 1
             /\ last'.body.items[1].book.id = last'.book_id
             /\ last'.body.items[1].book.is_active = FALSE
             /\ last'.body.items[1].inventory.quantity_available
                   = AvailableIn(inventory_records, last'.book_id)]_vars

\* A receipt of 2 accepted for a book that is soft-deleted, next to an
\* active book.
C27_Witness ==
    /\ last.op = "adjust" /\ last.status = 200 /\ last.delta = 2
    /\ last.book_id \in SoftDeletedIds
    /\ AvailableIn(inventory_records, last.book_id) = 2
    /\ accepted[last.book_id] = 1
    /\ \E b \in DOMAIN books : books[b].is_active

\* C28: no operation changes reorder_point: after every step, every
\* InventoryRecord has reorder_point equal to the configured low-stock
\* threshold, 5.  So the availability summary of a listed book that has a
\* record reports low_stock exactly when quantity_available <= 5, the
\* low-stock listing of the inventory holds exactly the records of active
\* books with quantity_available <= 5, and a book that was created and
\* never adjusted is reported low_stock and not in_stock.
C28_ReorderPointFixed ==
    [][/\ LOW_STOCK_THRESHOLD = 5
       /\ \A i \in 1..Len(inventory_records') :
             inventory_records'[i].reorder_point = LOW_STOCK_THRESHOLD
       /\ Served("list_books") =>
             \A k \in 1..Len(last'.body.items) :
                 LET item == last'.body.items[k]
                 IN /\ RowsOf(inventory_records, item.id) # {} =>
                          /\ item.availability.quantity_available
                                = AvailableIn(inventory_records, item.id)
                          /\ item.availability.low_stock
                                <=> (item.availability.quantity_available <= 5)
                    /\ (/\ item.id \in BookIds
                        /\ accepted[item.id] = 0
                        /\ TxOf(stock_transactions, item.id) = {}) =>
                          /\ item.availability.low_stock
                          /\ ~item.availability.in_stock
       /\ (Served("list_inventory") /\ last'.low_stock) =>
             /\ \A k \in 1..Len(last'.body.items) :
                   last'.body.items[k].inventory.quantity_available <= 5
             /\ last'.body.pagination.total
                   = Cardinality(
                         {i \in 1..Len(inventory_records) :
                             /\ inventory_records[i].book_id \in DOMAIN books
                             /\ books[inventory_records[i].book_id].is_active
                             /\ inventory_records[i].quantity_available <= 5})
      ]_vars

\* A listing of two books: one holds 6 and is not low on stock, the other
\* was created and never adjusted.
C28_Witness ==
    /\ last.op = "list_books" /\ last.status = 200
    /\ Len(last.body.items) = 2
    /\ \E k, l \in 1..2 :
          /\ last.body.items[k].availability.quantity_available = 6
          /\ ~last.body.items[k].availability.low_stock
          /\ last.body.items[k].availability.in_stock
          /\ accepted[last.body.items[l].id] = 0
          /\ last.body.items[l].availability.low_stock
          /\ ~last.body.items[l].availability.in_stock
    /\ \A i \in 1..Len(inventory_records) :
          inventory_records[i].reorder_point = 5

\* C29: an adjust for a book id, accepted or rejected, changes nothing but
\* that book's stock: every Book row stays as it is (is_active and
\* updated_at included), every InventoryRecord of another book_id stays
\* as it is and in its place, every StockTransaction stored stays as it
\* is, and what is added, a record or a row, carries the request's
\* book_id; a rejected adjust changes nothing at all.
C29_AdjustFrame ==
    [][Served("adjust") =>
          LET b == last'.book_id
              m == Len(inventory_records)
              n == Len(stock_transactions)
          IN /\ books' = books
             /\ Len(inventory_records') \in {m, m + 1}
             /\ \A i \in 1..m :
                   /\ inventory_records'[i].book_id
                         = inventory_records[i].book_id
                   /\ inventory_records[i].book_id # b =>
                         inventory_records'[i] = inventory_records[i]
             /\ Len(inventory_records') = m + 1 =>
                   inventory_records'[m + 1].book_id = b
             /\ Len(stock_transactions') \in {n, n + 1}
             /\ SubSeq(stock_transactions', 1, n) = stock_transactions
             /\ Len(stock_transactions') = n + 1 =>
                   stock_transactions'[n + 1].book_id = b
             /\ last'.status = 400 =>
                   /\ inventory_records' = inventory_records
                   /\ stock_transactions' = stock_transactions]_vars

\* A receipt accepted for one book a second after a receipt for another:
\* the other book's record keeps its stock and its earlier updated_at.
C29_Witness ==
    /\ last.op = "adjust" /\ last.status = 200 /\ now = 1
    /\ Len(stock_transactions) = 2
    /\ stock_transactions[1].book_id # last.book_id
    /\ stock_transactions[1].timestamp = 0
    /\ stock_transactions[2].timestamp = 1
    /\ \E i, j \in 1..Len(inventory_records) :
          /\ inventory_records[i].book_id = last.book_id
          /\ inventory_records[i].updated_at = 1
          /\ inventory_records[j].book_id = stock_transactions[1].book_id
          /\ inventory_records[j].updated_at = 0
          /\ inventory_records[j].quantity_available = 1
    /\ \E c \in DOMAIN books : books[c].updated_at = 0
====
